---- MODULE Spec2Model ----
(***************************************************************************)
(* Model of the transcript pipeline of chuchurex/inaudible:                *)
(*   scripts/fetch-transcript.py  merge_into_paragraphs (segment merger)   *)
(*   scripts/edit-transcript.py   chunk_segments, edit_transcript, main    *)
(*   scripts/translate.py         chunk_segments, translate_chunk, main    *)
(*                                                                         *)
(* Times are integers in hundredths of a second: the acquisition code      *)
(* rounds every start and duration to two decimals                         *)
(* (fetch-transcript.py:38-39, 90-91), so 1.5 s is 150, 10.0 s is 1000 and *)
(* 30.0 s is 3000.  Sums and differences of times are exact here; the      *)
(* code computes them in binary floating point, where a recomputed value   *)
(* can differ from the exact one in the last bit.  Texts are sequences of  *)
(* tokens; "\n" and " " are the newline and the space character.           *)
(***************************************************************************)
EXTENDS Integers, Sequences, FiniteSets, TLC

VARIABLES
    \* ---- merge_into_paragraphs (fetch-transcript.py) ----
    m_pc,          \* position in merge_into_paragraphs: "start", "loop", "done"
    m_segments,    \* the argument `segments`
    merged,        \* the local list `merged`; the return value once m_pc = "done"
    current,       \* the accumulator `current`
    m_k,           \* index (1-based) of the next element of segments[1:] to fold
    m_groups,      \* history: the input indices each accumulator has consumed
    m_alias,       \* index of the element of `segments` that `current` is the
                   \* same object as; 0 when `current` is a dict of its own
    m_call,        \* which call on this input is running: 1 or 2
    m_first,       \* what the first call returned
    \* ---- chunk_segments as a function of any max_segments ----
    c_pc,          \* "start", "done"
    c_segments,    \* the argument `segments`
    c_max,         \* the argument `max_segments`
    c_fn,          \* which script's chunk_segments is called: "edit", "translate"
    c_chunks,      \* the returned list of chunks
    \* ---- edit-transcript.py main ----
    e_pc,          \* "start", "loop", "call", "done", "exit1", "crashed", "idle"
    e_source,      \* the file transcript.<lang>.json
    e_reffile,     \* the reference episode's transcript.<lang>.html
    e_environ,     \* "ANTHROPIC_API_KEY" in os.environ
    e_envlocal,    \* .env.local exists and sets ANTHROPIC_API_KEY
    e_segments,    \* main: segments
    reference_html,    \* main: reference_html
    e_chunks,      \* main: chunks
    e_i,           \* main: the loop index i
    all_html_parts,    \* main: all_html_parts
    previous_sections, \* main: previous_sections
    e_requests,    \* the requests handed to client.messages.create, in order
    e_output,      \* the file transcript.<lang>.html
    e_writes,      \* number of times the output file has been written
    e_replies,     \* what client.messages.create did, call by call
    \* ---- translate.py main ----
    t_pc,          \* "start", "loop", "call", "done", "exit1", "crashed", "idle"
    t_source,      \* the file transcript.en.json
    t_environ,     \* "ANTHROPIC_API_KEY" in os.environ
    t_envlocal,    \* .env.local exists and sets ANTHROPIC_API_KEY
    t_segments,    \* main: segments
    t_chunks,      \* main: chunks
    t_i,           \* main: the loop index i
    all_translated,    \* main: all_translated
    t_requests,    \* the requests handed to client.messages.create, in order
    t_json,        \* the file transcript.<target>.json
    t_md,          \* the file transcript.<target>.md
    t_replies,      \* what client.messages.create did, call by call
    \* ---- fetch-transcript.py: main ----
    f_pc,          \* "start", "api", "fallback", "check", "merge", "merging",
                   \* "done", "exit1", "idle"
    f_argc,        \* len(sys.argv)
    f_segments,    \* the local `segments`: None or a list
    f_calls,       \* history: the sources invoked, in order
    f_returns,     \* history: what each invoked source returned
    f_json,        \* transcript.en.json
    f_md           \* transcript.en.md

mvars == <<m_pc, m_segments, merged, current, m_k, m_groups, m_alias, m_call,
           m_first>>
cvars == <<c_pc, c_segments, c_max, c_fn, c_chunks>>
evars == <<e_pc, e_source, e_reffile, e_environ, e_envlocal, e_segments,
           reference_html, e_chunks, e_i, all_html_parts, previous_sections,
           e_requests, e_output, e_writes, e_replies>>
tvars == <<t_pc, t_source, t_environ, t_envlocal, t_segments, t_chunks, t_i,
           all_translated, t_requests, t_json, t_md, t_replies>>
fvars == <<f_pc, f_argc, f_segments, f_calls, f_returns, f_json, f_md>>
vars == <<mvars, cvars, evars, tvars, fvars>>

(***************************************************************************)
(* Generic sequence helpers                                                *)
(***************************************************************************)
RECURSIVE Flatten(_)
\* concatenation of a sequence of sequences
Flatten(ss) ==
    IF ss = <<>> THEN <<>> ELSE Head(ss) \o Flatten(Tail(ss))

RECURSIVE JoinWith(_, _)
\* Python sep.join(parts), on token sequences
JoinWith(sep, parts) ==
    IF parts = <<>> THEN <<>>
    ELSE IF Len(parts) = 1 THEN parts[1]
    ELSE parts[1] \o sep \o JoinWith(sep, Tail(parts))



(***************************************************************************)
(* merge_into_paragraphs                                                   *)
(***************************************************************************)
\* default argument target_duration = 30.0
TargetDuration == 3000
\* default argument pause_threshold = 1.5
PauseThreshold == 150
\* the literal 10.0 in should_break
MinContent == 1000

\* bound: longest raw transcript handed to the merger
MaxRaw == 3

SP == " "
\* value of `current` before line 114 has run
NoSegment == [start |-> 0, duration |-> 0, text |-> <<>>]

\* raw durations: 2 s, 10 s, 30 s
Durs == {200, 1000, 3000}
\* distance from the end of one raw segment to the start of the next:
\* an overlap of 1 s, none, exactly the threshold, 2 s
Gaps == {-100, 0, 150, 200}
FirstStarts == {0, 250}
Texts == {<<"a">>, <<"b", SP, "c">>}

RECURSIVE BuildSegments(_, _, _, _, _)
\* the raw transcript with first start s0, durations d, gaps g and texts t
BuildSegments(n, s0, d, g, t) ==
    IF n = 0 THEN <<>>
    ELSE IF n = 1 THEN <<[start |-> s0, duration |-> d[1], text |-> t[1]]>>
    ELSE LET prev == BuildSegments(n - 1, s0, d, g, t)
             last == prev[n - 1]
         IN  Append(prev, [start |-> last.start + last.duration + g[n - 1],
                           duration |-> d[n], text |-> t[n]])

\* gap = seg["start"] - current_end
GapTo(cur, seg) == seg.start - (cur.start + cur.duration)

should_break_gap_geq(cur, seg, target_duration, pause_threshold) ==
    \/ (GapTo(cur, seg) >= pause_threshold /\ cur.duration >= MinContent)
    \/ cur.duration >= target_duration

should_break_target_gt(cur, seg, target_duration, pause_threshold) ==
    \/ (GapTo(cur, seg) > pause_threshold /\ cur.duration >= MinContent)
    \/ cur.duration > target_duration

should_break(cur, seg, target_duration, pause_threshold) ==
    \/ (GapTo(cur, seg) > pause_threshold /\ cur.duration >= MinContent)
    \/ cur.duration >= target_duration

FoldInto_DropText(cur, seg) ==
    [cur EXCEPT !.duration = (seg.start + seg.duration) - cur.start]

FoldInto_KeepDuration(cur, seg) ==
    [cur EXCEPT !.text = cur.text \o <<SP>> \o seg.text]

FoldInto_SumDuration(cur, seg) ==
    [cur EXCEPT !.text = cur.text \o <<SP>> \o seg.text,
                !.duration = cur.duration + seg.duration]

\* the else branch: fold seg into the accumulator
FoldInto(cur, seg) ==
    [cur EXCEPT !.text = cur.text \o <<SP>> \o seg.text,
                !.duration = (seg.start + seg.duration) - cur.start]

dict_copy_none(k) == k

\* dict(segments[k]): the accumulator becomes a new dict, not element k itself
dict_copy(k) == 0

MergeBegin ==
    /\ m_pc = "start"
    /\ IF m_segments = <<>>
       THEN /\ merged' = m_segments
            /\ m_pc' = "done"
            /\ UNCHANGED <<current, m_k, m_groups, m_alias>>
       ELSE /\ merged' = <<>>
            /\ current' = m_segments[1]
            /\ m_alias' = dict_copy(1)
            /\ m_k' = 2
            /\ m_groups' = << <<1>> >>
            /\ m_pc' = "loop"
    /\ UNCHANGED <<m_segments, m_call, m_first, cvars, evars, tvars, fvars>>

MergeStep ==
    /\ m_pc = "loop"
    /\ m_k <= Len(m_segments)
    /\ LET seg == m_segments[m_k]
       IN  IF should_break(current, seg, TargetDuration, PauseThreshold)
           THEN /\ merged' = Append(merged, current)
                /\ current' = seg
                /\ m_alias' = dict_copy(m_k)
                /\ m_groups' = Append(m_groups, <<m_k>>)
                /\ UNCHANGED m_segments
           ELSE /\ current' = FoldInto(current, seg)
                \* the two item assignments write the object `current` names
                /\ m_segments' = IF m_alias = 0 THEN m_segments
                                 ELSE [m_segments EXCEPT
                                          ![m_alias] = FoldInto(current, seg)]
                /\ m_groups' = [m_groups EXCEPT ![Len(m_groups)] = Append(@, m_k)]
                /\ UNCHANGED <<merged, m_alias>>
    /\ m_k' = m_k + 1
    /\ UNCHANGED <<m_pc, m_call, m_first, cvars, evars, tvars, fvars>>

MergeEnd_NoFlush ==
    /\ m_pc = "loop"
    /\ m_k > Len(m_segments)
    /\ m_pc' = "done"
    /\ UNCHANGED <<m_segments, merged, current, m_k, m_groups, m_alias, m_call,
                   m_first, cvars, evars, tvars, fvars>>

MergeEnd ==
    /\ m_pc = "loop"
    /\ m_k > Len(m_segments)
    /\ merged' = Append(merged, current)
    /\ m_pc' = "done"
    /\ UNCHANGED <<m_segments, current, m_k, m_groups, m_alias, m_call, m_first,
                   cvars, evars, tvars, fvars>>

\* the caller keeps the result and calls merge_into_paragraphs on the same
\* list a second time
MergeAgain ==
    /\ m_pc = "done"
    /\ m_call = 1
    /\ m_first' = merged
    /\ m_call' = 2
    /\ merged' = <<>>
    /\ current' = NoSegment
    /\ m_k' = 0
    /\ m_groups' = <<>>
    /\ m_alias' = 0
    /\ m_pc' = "start"
    /\ UNCHANGED <<m_segments, cvars, evars, tvars, fvars>>

MergeIdle ==
    /\ m_pc = "idle"
    /\ m_segments = <<>>
    /\ merged = <<>>
    /\ current = NoSegment
    /\ m_k = 0
    /\ m_groups = <<>>
    /\ m_alias = 0
    /\ m_call = 1
    /\ m_first = <<>>

(***************************************************************************)
(* chunk_segments (edit-transcript.py:53-58, translate.py:40-45)           *)
(***************************************************************************)
\* max_segments=40 at edit-transcript.py:238
EditMaxSegments == 40
\* max_segments=50 at translate.py:156
TranslateMaxSegments == 50

\* bound: longest argument of chunk_segments in SpecChunk
MaxChunkLen == 5
\* bound: largest max_segments in SpecChunk
MaxWindow == 4
ChunkItems == {"s1", "s2"}

\* Python s[a:b] for 0 <= a <= b (a, b are 0-based offsets)
Slice(s, a, b) == SubSeq(s, a + 1, IF b <= Len(s) THEN b ELSE Len(s))

RECURSIVE ChunkFrom(_, _, _)
\* the iterations i, i + max_segments, ... of range(0, len(segments), max_segments)
ChunkFrom(segments, i, max_segments) ==
    IF i >= Len(segments) THEN <<>>
    ELSE <<Slice(segments, i, i + max_segments)>>
             \o ChunkFrom(segments, i + max_segments, max_segments)

RECURSIVE ChunkFrom_ShortSlice(_, _, _)
ChunkFrom_ShortSlice(segments, i, max_segments) ==
    IF i >= Len(segments) THEN <<>>
    ELSE <<Slice(segments, i, i + max_segments - 1)>>
             \o ChunkFrom_ShortSlice(segments, i + max_segments, max_segments)

chunk_segments_one_empty(segments, max_segments) ==
    IF segments = <<>> THEN << <<>> >> ELSE ChunkFrom(segments, 0, max_segments)

chunk_segments_short(segments, max_segments) ==
    ChunkFrom_ShortSlice(segments, 0, max_segments)

\* edit-transcript.py chunk_segments
chunk_segments(segments, max_segments) == ChunkFrom(segments, 0, max_segments)

\* translate.py chunk_segments
t_chunk_segments(segments, max_segments) == ChunkFrom(segments, 0, max_segments)

ChunkCall ==
    /\ c_pc = "start"
    /\ c_chunks' = IF c_fn = "edit" THEN chunk_segments(c_segments, c_max)
                   ELSE t_chunk_segments(c_segments, c_max)
    /\ c_pc' = "done"
    /\ UNCHANGED <<c_segments, c_max, c_fn, mvars, evars, tvars, fvars>>

ChunkIdle ==
    /\ c_pc = "idle"
    /\ c_segments = <<>>
    /\ c_max = 1
    /\ c_fn = "edit"
    /\ c_chunks = <<>>

(***************************************************************************)
(* edit-transcript.py                                                      *)
(***************************************************************************)
\* bound: longest source transcript (in segments) a driver run loads
MaxSegments == 81

NL == "\n"
H2Open == "<h2>"
H2Close == "</h2>"

\* the two outcomes of client.messages.create
Returned(text) == [ok |-> TRUE, text |-> text]
Raised == [ok |-> FALSE, text |-> <<>>]

NoFile == [exists |-> FALSE, content |-> <<>>]
FileOf(c) == [exists |-> TRUE, content |-> c]

\* format_time, on hundredths of a second: <<h, m, s>> stands for "h:mm:ss"
\* and <<m, s>> for "m:ss"
format_time(t) ==
    LET seconds == t \div 100
        h == seconds \div 3600
        m == (seconds % 3600) \div 60
        s == seconds % 60
    IN  IF h > 0 THEN <<h, m, s>> ELSE <<m, s>>

\* the transcript JSON on disk: n paragraph segments of 30 s each
SourceSegments(n) ==
    [k \in 1..n |-> [start |-> (k - 1) * TargetDuration,
                     duration |-> TargetDuration, text |-> <<"w">>]]

\* text_block: one "[time] text" line per segment
text_block(segments) ==
    [k \in 1..Len(segments) |->
        [stamp |-> format_time(segments[k].start), text |-> segments[k].text]]

\* load_env: afterwards the key is in os.environ if it was there already or
\* .env.local sets it
load_env(environ, envlocal) == environ \/ envlocal

\* load_reference_html: the file's content, or None
load_reference_html(reffile) ==
    IF reffile.exists THEN [none |-> FALSE, text |-> reffile.content]
    ELSE [none |-> TRUE, text |-> <<>>]

\* Python truth value of `str | None`
Truthy(opt) == ~opt.none /\ opt.text # <<>>

\* the three structure_instruction texts, by what each tells the service
StructureFirst ==
    [scope |-> "complete document", opening |-> "include", closing |-> "do not close"]
StructureLast ==
    [scope |-> "sections only", opening |-> "exclude", closing |-> "add"]
StructureMiddle ==
    [scope |-> "sections only", opening |-> "exclude", closing |-> "none"]

structure_instruction_off_by_one(chunk_index, total_chunks) ==
    IF chunk_index = 0 THEN StructureFirst
    ELSE IF chunk_index = total_chunks THEN StructureLast
    ELSE StructureMiddle

\* edit_transcript: structure_instruction
structure_instruction(chunk_index, total_chunks) ==
    IF chunk_index = 0 THEN StructureFirst
    ELSE IF chunk_index = total_chunks - 1 THEN StructureLast
    ELSE StructureMiddle

reference_instruction_always_full(ref, chunk_index) ==
    IF Truthy(ref) THEN [kind |-> "full", html |-> ref.text]
    ELSE [kind |-> "none", html |-> <<>>]

\* edit_transcript: reference_instruction
reference_instruction(ref, chunk_index) ==
    IF Truthy(ref)
    THEN IF chunk_index = 0 THEN [kind |-> "full", html |-> ref.text]
         ELSE [kind |-> "continue", html |-> <<>>]
    ELSE [kind |-> "none", html |-> <<>>]

\* edit_transcript: context_instruction
context_instruction(prev) ==
    IF prev # <<>> THEN [present |-> TRUE, titles |-> prev]
    ELSE [present |-> FALSE, titles |-> <<>>]

\* the arguments of client.messages.create that vary between calls
EditRequest(chunk, ref, chunk_index, total_chunks, prev) ==
    [chunk_index |-> chunk_index,
     total_chunks |-> total_chunks,
     structure |-> structure_instruction(chunk_index, total_chunks),
     reference |-> reference_instruction(ref, chunk_index),
     context |-> context_instruction(prev),
     text_block |-> text_block(chunk)]

RECURSIVE SplitOn(_, _)
\* Python s.split(sep) for a one-token separator
SplitOn(s, sep) ==
    IF \A k \in 1..Len(s) : s[k] # sep THEN <<s>>
    ELSE LET p == CHOOSE k \in 1..Len(s) :
                      s[k] = sep /\ \A j \in 1..(k - 1) : s[j] # sep
         IN  <<SubSeq(s, 1, p - 1)>> \o SplitOn(SubSeq(s, p + 1, Len(s)), sep)

Contains(line, tok) == \E k \in 1..Len(line) : line[k] = tok

\* Python line.index(tok), 1-based
IndexOf(line, tok) ==
    CHOOSE k \in 1..Len(line) : line[k] = tok /\ \A j \in 1..(k - 1) : line[j] # tok

RECURSIVE TitlesOf(_)
\* the list `titles` of extract_section_titles, over the lines of the html
TitlesOf(lines) ==
    IF lines = <<>> THEN <<>>
    ELSE LET line == Head(lines)
         IN  (IF Contains(line, H2Open) /\ Contains(line, H2Close)
              THEN << <<"- ">> \o SubSeq(line, IndexOf(line, H2Open) + 1,
                                         IndexOf(line, H2Close) - 1) >>
              ELSE <<>>) \o TitlesOf(Tail(lines))

extract_section_titles(html) == JoinWith(<<NL>>, TitlesOf(SplitOn(html, NL)))

\* what the service may return for a window
Fragments ==
    { <<"<h2>", "A", "</h2>", NL, "<p>">>,
      <<"<p>">>,
      <<"<h2>", "B", "</h2>", NL, "<p>", NL, "<h2>", "C", "</h2>">>,
      <<"</h2>", "x", "<h2>">>,
      <<"<h2>", "D">>,
      <<>> }

ReferenceFiles == {NoFile, FileOf(<<>>), FileOf(<<"<html>", "ref", "</html>">>)}

EditStart_NoKeyCheck ==
    /\ e_pc = "start"
    /\ IF ~e_source.exists
       THEN /\ e_pc' = "exit1"
            /\ UNCHANGED <<e_environ, e_segments, reference_html, e_chunks>>
       ELSE /\ e_segments' = e_source.content
            /\ reference_html' = load_reference_html(e_reffile)
            /\ e_environ' = load_env(e_environ, e_envlocal)
            /\ e_chunks' = chunk_segments(e_segments', EditMaxSegments)
            /\ e_pc' = "loop"
    /\ UNCHANGED <<e_source, e_reffile, e_envlocal, e_i, all_html_parts,
                   previous_sections, e_requests, e_output, e_writes, e_replies>>
    /\ UNCHANGED <<mvars, cvars, tvars, fvars>>

EditStart ==
    /\ e_pc = "start"
    /\ IF ~e_source.exists
       THEN /\ e_pc' = "exit1"
            /\ UNCHANGED <<e_environ, e_segments, reference_html, e_chunks>>
       ELSE /\ e_segments' = e_source.content
            /\ reference_html' = load_reference_html(e_reffile)
            /\ e_environ' = load_env(e_environ, e_envlocal)
            /\ IF ~e_environ'
               THEN /\ e_pc' = "exit1"
                    /\ UNCHANGED e_chunks
               ELSE /\ e_chunks' = chunk_segments(e_segments', EditMaxSegments)
                    /\ e_pc' = "loop"
    /\ UNCHANGED <<e_source, e_reffile, e_envlocal, e_i, all_html_parts,
                   previous_sections, e_requests, e_output, e_writes, e_replies>>
    /\ UNCHANGED <<mvars, cvars, tvars, fvars>>

EditDispatch_NoWait ==
    /\ e_pc \in {"loop", "call"}
    /\ Len(e_requests) < Len(e_chunks)
    /\ e_requests' = Append(e_requests,
           EditRequest(e_chunks[Len(e_requests) + 1], reference_html,
                       Len(e_requests), Len(e_chunks), previous_sections))
    /\ e_pc' = "call"
    /\ UNCHANGED <<e_source, e_reffile, e_environ, e_envlocal, e_segments,
                   reference_html, e_chunks, e_i, all_html_parts,
                   previous_sections, e_output, e_writes, e_replies>>
    /\ UNCHANGED <<mvars, cvars, tvars, fvars>>

\* one loop iteration up to the call of client.messages.create
EditDispatch ==
    /\ e_pc = "loop"
    /\ e_i < Len(e_chunks)
    /\ e_requests' = Append(e_requests,
           EditRequest(e_chunks[e_i + 1], reference_html, e_i, Len(e_chunks),
                       previous_sections))
    /\ e_pc' = "call"
    /\ UNCHANGED <<e_source, e_reffile, e_environ, e_envlocal, e_segments,
                   reference_html, e_chunks, e_i, all_html_parts,
                   previous_sections, e_output, e_writes, e_replies>>
    /\ UNCHANGED <<mvars, cvars, tvars, fvars>>

EditReturn_Overwrite ==
    /\ e_pc = "call"
    /\ \E html_part \in Fragments :
         /\ e_replies' = Append(e_replies, Returned(html_part))
         /\ all_html_parts' = Append(all_html_parts, html_part)
         /\ previous_sections' = extract_section_titles(html_part) \o <<NL>>
    /\ e_i' = e_i + 1
    /\ e_pc' = "loop"
    /\ UNCHANGED <<e_source, e_reffile, e_environ, e_envlocal, e_segments,
                   reference_html, e_chunks, e_requests, e_output, e_writes>>
    /\ UNCHANGED <<mvars, cvars, tvars, fvars>>

\* the call returns: the rest of the iteration
EditReturn ==
    /\ e_pc = "call"
    /\ \E html_part \in Fragments :
         /\ e_replies' = Append(e_replies, Returned(html_part))
         /\ all_html_parts' = Append(all_html_parts, html_part)
         /\ previous_sections' =
                previous_sections \o extract_section_titles(html_part) \o <<NL>>
    /\ e_i' = e_i + 1
    /\ e_pc' = "loop"
    /\ UNCHANGED <<e_source, e_reffile, e_environ, e_envlocal, e_segments,
                   reference_html, e_chunks, e_requests, e_output, e_writes>>
    /\ UNCHANGED <<mvars, cvars, tvars, fvars>>

EditFail_Placeholder ==
    /\ e_pc = "call"
    /\ e_replies' = Append(e_replies, Raised)
    /\ all_html_parts' = Append(all_html_parts, <<>>)
    /\ previous_sections' = previous_sections \o <<NL>>
    /\ e_i' = e_i + 1
    /\ e_pc' = "loop"
    /\ UNCHANGED <<e_source, e_reffile, e_environ, e_envlocal, e_segments,
                   reference_html, e_chunks, e_requests, e_output, e_writes>>
    /\ UNCHANGED <<mvars, cvars, tvars, fvars>>

\* the call raises: nothing in main catches it
EditFail ==
    /\ e_pc = "call"
    /\ e_replies' = Append(e_replies, Raised)
    /\ e_pc' = "crashed"
    /\ UNCHANGED <<e_source, e_reffile, e_environ, e_envlocal, e_segments,
                   reference_html, e_chunks, e_i, all_html_parts,
                   previous_sections, e_requests, e_output, e_writes>>
    /\ UNCHANGED <<mvars, cvars, tvars, fvars>>

EditSave_Early ==
    /\ e_pc = "loop"
    /\ e_i + 1 >= Len(e_chunks)
    /\ e_output' = FileOf(JoinWith(<<NL, NL>>, all_html_parts))
    /\ e_writes' = e_writes + 1
    /\ e_pc' = "done"
    /\ UNCHANGED <<e_source, e_reffile, e_environ, e_envlocal, e_segments,
                   reference_html, e_chunks, e_i, all_html_parts,
                   previous_sections, e_requests, e_replies>>
    /\ UNCHANGED <<mvars, cvars, tvars, fvars>>

EditSave_SingleNewline ==
    /\ e_pc = "loop"
    /\ e_i >= Len(e_chunks)
    /\ e_output' = FileOf(JoinWith(<<NL>>, all_html_parts))
    /\ e_writes' = e_writes + 1
    /\ e_pc' = "done"
    /\ UNCHANGED <<e_source, e_reffile, e_environ, e_envlocal, e_segments,
                   reference_html, e_chunks, e_i, all_html_parts,
                   previous_sections, e_requests, e_replies>>
    /\ UNCHANGED <<mvars, cvars, tvars, fvars>>

\* after the loop: join and save
EditSave ==
    /\ e_pc = "loop"
    /\ e_i >= Len(e_chunks)
    /\ e_output' = FileOf(JoinWith(<<NL, NL>>, all_html_parts))
    /\ e_writes' = e_writes + 1
    /\ e_pc' = "done"
    /\ UNCHANGED <<e_source, e_reffile, e_environ, e_envlocal, e_segments,
                   reference_html, e_chunks, e_i, all_html_parts,
                   previous_sections, e_requests, e_replies>>
    /\ UNCHANGED <<mvars, cvars, tvars, fvars>>

EditIdle ==
    /\ e_pc = "idle"
    /\ e_source = NoFile
    /\ e_reffile = NoFile
    /\ e_environ = FALSE
    /\ e_envlocal = FALSE
    /\ e_segments = <<>>
    /\ reference_html = [none |-> TRUE, text |-> <<>>]
    /\ e_chunks = <<>>
    /\ e_i = 0
    /\ all_html_parts = <<>>
    /\ previous_sections = <<>>
    /\ e_requests = <<>>
    /\ e_output = NoFile
    /\ e_writes = 0
    /\ e_replies = <<>>

InitEdit ==
    /\ e_pc = "start"
    /\ e_source \in {NoFile} \cup {FileOf(SourceSegments(n)) : n \in 0..MaxSegments}
    /\ e_reffile \in ReferenceFiles
    /\ e_environ \in BOOLEAN
    /\ e_envlocal \in BOOLEAN
    /\ e_segments = <<>>
    /\ reference_html = [none |-> TRUE, text |-> <<>>]
    /\ e_chunks = <<>>
    /\ e_i = 0
    /\ all_html_parts = <<>>
    /\ previous_sections = <<>>
    /\ e_requests = <<>>
    /\ e_output = NoFile
    /\ e_writes = 0
    /\ e_replies = <<>>

NextEdit == EditStart \/ EditDispatch \/ EditReturn \/ EditFail \/ EditSave

(***************************************************************************)
(* translate.py                                                            *)
(***************************************************************************)
RBracket == "]"

IsSpace(tok) == tok = SP \/ tok = NL

RECURSIVE LStrip(_)
LStrip(s) == IF s # <<>> /\ IsSpace(Head(s)) THEN LStrip(Tail(s)) ELSE s

RECURSIVE RStrip(_)
RStrip(s) ==
    IF s # <<>> /\ IsSpace(s[Len(s)]) THEN RStrip(SubSeq(s, 1, Len(s) - 1)) ELSE s

\* Python s.strip()
Strip(s) == RStrip(LStrip(s))

\* the shapes of reply the service may give for a window
ResponseKinds == {"exact", "short", "preamble", "nostamp", "empty"}

\* the reply line for the k-th segment of the window
ReplyLine(seg, stamped) ==
    IF stamped THEN <<"[", ToString(format_time(seg.start)), RBracket, SP, "t">>
    ELSE <<"t", SP, "t">>

\* response.content[0].text for a reply of the given shape
ResponseText(kind, segments) ==
    LET n == Len(segments)
        full == [k \in 1..n |-> ReplyLine(segments[k], kind # "nostamp")]
    IN  CASE kind = "exact" -> JoinWith(<<NL>>, full) \o <<NL>>
          [] kind = "nostamp" -> JoinWith(<<NL>>, full)
          [] kind = "short" -> JoinWith(<<NL>>, SubSeq(full, 1, n - 1))
          [] kind = "preamble" -> <<"note", NL>> \o JoinWith(<<NL>>, full)
          [] OTHER -> <<>>

translate_chunk_pad(segments, translated_text) ==
    LET lines == SplitOn(Strip(translated_text), NL)
    IN  [k \in 1..Len(segments) |->
            [start |-> segments[k].start,
             duration |-> segments[k].duration,
             text |-> IF k > Len(lines) THEN segments[k].text
                      ELSE IF Contains(lines[k], RBracket)
                      THEN Strip(SubSeq(lines[k], IndexOf(lines[k], RBracket) + 1,
                                        Len(lines[k])))
                      ELSE lines[k]]]

\* translate_chunk after the call: zip the segments with the reply's lines
translate_chunk(segments, translated_text) ==
    LET lines == SplitOn(Strip(translated_text), NL)
        n == IF Len(segments) <= Len(lines) THEN Len(segments) ELSE Len(lines)
    IN  [k \in 1..n |->
            [start |-> segments[k].start,
             duration |-> segments[k].duration,
             text |-> IF Contains(lines[k], RBracket)
                      THEN Strip(SubSeq(lines[k], IndexOf(lines[k], RBracket) + 1,
                                        Len(lines[k])))
                      ELSE lines[k]]]

\* the lines of the Markdown rendering
markdown(segments) ==
    [k \in 1..Len(segments) |->
        [stamp |-> format_time(segments[k].start), text |-> segments[k].text]]

TranslateStart ==
    /\ t_pc = "start"
    /\ IF ~t_source.exists
       THEN /\ t_pc' = "exit1"
            /\ UNCHANGED <<t_environ, t_segments, t_chunks>>
       ELSE /\ t_segments' = t_source.content
            /\ t_environ' = load_env(t_environ, t_envlocal)
            /\ IF ~t_environ'
               THEN /\ t_pc' = "exit1"
                    /\ UNCHANGED t_chunks
               ELSE /\ t_chunks' = t_chunk_segments(t_segments', TranslateMaxSegments)
                    /\ t_pc' = "loop"
    /\ UNCHANGED <<t_source, t_envlocal, t_i, all_translated, t_requests,
                   t_json, t_md, t_replies>>
    /\ UNCHANGED <<mvars, cvars, evars, fvars>>

\* one loop iteration up to the call of client.messages.create
TranslateDispatch ==
    /\ t_pc = "loop"
    /\ t_i < Len(t_chunks)
    /\ t_requests' = Append(t_requests, [text_block |-> text_block(t_chunks[t_i + 1])])
    /\ t_pc' = "call"
    /\ UNCHANGED <<t_source, t_environ, t_envlocal, t_segments, t_chunks, t_i,
                   all_translated, t_json, t_md, t_replies>>
    /\ UNCHANGED <<mvars, cvars, evars, fvars>>

\* the call returns: the rest of translate_chunk and of the iteration
TranslateReturn ==
    /\ t_pc = "call"
    /\ \E kind \in ResponseKinds :
         LET translated_text == ResponseText(kind, t_chunks[t_i + 1])
         IN  /\ t_replies' = Append(t_replies, Returned(translated_text))
             /\ all_translated' = all_translated \o
                    translate_chunk(t_chunks[t_i + 1], translated_text)
    /\ t_i' = t_i + 1
    /\ t_pc' = "loop"
    /\ UNCHANGED <<t_source, t_environ, t_envlocal, t_segments, t_chunks,
                   t_requests, t_json, t_md>>
    /\ UNCHANGED <<mvars, cvars, evars, fvars>>

\* the call raises: nothing in main catches it
TranslateFail ==
    /\ t_pc = "call"
    /\ t_replies' = Append(t_replies, Raised)
    /\ t_pc' = "crashed"
    /\ UNCHANGED <<t_source, t_environ, t_envlocal, t_segments, t_chunks, t_i,
                   all_translated, t_requests, t_json, t_md>>
    /\ UNCHANGED <<mvars, cvars, evars, fvars>>

\* after the loop: save JSON and Markdown
TranslateSave ==
    /\ t_pc = "loop"
    /\ t_i >= Len(t_chunks)
    /\ t_json' = FileOf(all_translated)
    /\ t_md' = FileOf(markdown(all_translated))
    /\ t_pc' = "done"
    /\ UNCHANGED <<t_source, t_environ, t_envlocal, t_segments, t_chunks, t_i,
                   all_translated, t_requests, t_replies>>
    /\ UNCHANGED <<mvars, cvars, evars, fvars>>

TranslateIdle ==
    /\ t_pc = "idle"
    /\ t_source = NoFile
    /\ t_environ = FALSE
    /\ t_envlocal = FALSE
    /\ t_segments = <<>>
    /\ t_chunks = <<>>
    /\ t_i = 0
    /\ all_translated = <<>>
    /\ t_requests = <<>>
    /\ t_json = NoFile
    /\ t_md = NoFile
    /\ t_replies = <<>>

InitTranslate ==
    /\ t_pc = "start"
    /\ t_source \in {NoFile} \cup {FileOf(SourceSegments(n)) : n \in 0..MaxSegments}
    /\ t_environ \in BOOLEAN
    /\ t_envlocal \in BOOLEAN
    /\ t_segments = <<>>
    /\ t_chunks = <<>>
    /\ t_i = 0
    /\ all_translated = <<>>
    /\ t_requests = <<>>
    /\ t_json = NoFile
    /\ t_md = NoFile
    /\ t_replies = <<>>

NextTranslate ==
    TranslateStart \/ TranslateDispatch \/ TranslateReturn \/ TranslateFail
        \/ TranslateSave

(***************************************************************************)
(* fetch-transcript.py: main                                               *)
(***************************************************************************)
MaxFetched == 2

None == [none |-> TRUE, segs |-> <<>>]
ListOf(segs) == [none |-> FALSE, segs |-> segs]

\* `not segments`: None and the empty list are both falsy
NotSegments(v) == v.none \/ v.segs = <<>>

\* the non-empty transcripts a source can deliver
FetchTranscripts ==
    UNION {{BuildSegments(n, 0, d, g, t) :
                d \in [1..n -> Durs], g \in [1..(n - 1) -> {0, 200}],
                t \in [1..n -> {<<"a">>}]} : n \in 1..MaxFetched}

\* fetch_with_api: None on any exception, else the list built from the
\* service's entries, which may be empty
ApiReturns == {None, ListOf(<<>>)} \cup {ListOf(s) : s \in FetchTranscripts}

\* fetch_with_ytdlp: None on any exception, on a missing subtitle file and on
\* an empty list, else the non-empty list
YtdlpReturns == {None} \cup {ListOf(s) : s \in FetchTranscripts}

\* save_transcript's Markdown: one stamped line per segment
transcript_md(segments) ==
    [k \in 1..Len(segments) |->
        [stamp |-> format_time(segments[k].start), text |-> segments[k].text]]

FetchStart ==
    /\ f_pc = "start"
    /\ f_pc' = IF f_argc < 3 THEN "exit1" ELSE "api"
    /\ UNCHANGED <<f_argc, f_segments, f_calls, f_returns, f_json, f_md,
                   mvars, cvars, evars, tvars>>

FetchPrimary ==
    /\ f_pc = "api"
    /\ \E r \in ApiReturns :
         /\ f_segments' = r
         /\ f_returns' = Append(f_returns, r)
    /\ f_calls' = Append(f_calls, "api")
    /\ f_pc' = "fallback"
    /\ UNCHANGED <<f_argc, f_json, f_md, mvars, cvars, evars, tvars>>

FetchFallback_OnlyNone ==
    /\ f_pc = "fallback"
    /\ IF f_segments.none
       THEN /\ \E r \in YtdlpReturns :
                 /\ f_segments' = r
                 /\ f_returns' = Append(f_returns, r)
            /\ f_calls' = Append(f_calls, "ytdlp")
       ELSE UNCHANGED <<f_segments, f_calls, f_returns>>
    /\ f_pc' = "check"
    /\ UNCHANGED <<f_argc, f_json, f_md, mvars, cvars, evars, tvars>>

FetchFallback ==
    /\ f_pc = "fallback"
    /\ IF NotSegments(f_segments)
       THEN /\ \E r \in YtdlpReturns :
                 /\ f_segments' = r
                 /\ f_returns' = Append(f_returns, r)
            /\ f_calls' = Append(f_calls, "ytdlp")
       ELSE UNCHANGED <<f_segments, f_calls, f_returns>>
    /\ f_pc' = "check"
    /\ UNCHANGED <<f_argc, f_json, f_md, mvars, cvars, evars, tvars>>

FetchCheck ==
    /\ f_pc = "check"
    /\ f_pc' = IF NotSegments(f_segments) THEN "exit1" ELSE "merge"
    /\ UNCHANGED <<f_argc, f_segments, f_calls, f_returns, f_json, f_md,
                   mvars, cvars, evars, tvars>>

\* the call merge_into_paragraphs(segments); MergeBegin, MergeStep and
\* MergeEnd run it
FetchMergeCall ==
    /\ f_pc = "merge"
    /\ m_pc = "idle"
    /\ m_segments' = f_segments.segs
    /\ m_pc' = "start"
    /\ f_pc' = "merging"
    /\ UNCHANGED <<merged, current, m_k, m_groups, m_alias, m_call, m_first,
                   f_argc, f_segments, f_calls, f_returns, f_json, f_md,
                   cvars, evars, tvars>>

FetchSave ==
    /\ f_pc = "merging"
    /\ m_pc = "done"
    /\ f_segments' = ListOf(merged)
    /\ f_json' = FileOf(merged)
    /\ f_md' = FileOf(transcript_md(merged))
    /\ f_pc' = "done"
    /\ UNCHANGED <<f_argc, f_calls, f_returns, mvars, cvars, evars, tvars>>

FetchIdle ==
    /\ f_pc = "idle"
    /\ f_argc = 3
    /\ f_segments = None
    /\ f_calls = <<>>
    /\ f_returns = <<>>
    /\ f_json = NoFile
    /\ f_md = NoFile

InitFetch ==
    /\ f_pc = "start"
    /\ f_argc \in {2, 3}
    /\ f_segments = None
    /\ f_calls = <<>>
    /\ f_returns = <<>>
    /\ f_json = NoFile
    /\ f_md = NoFile
    /\ MergeIdle
    /\ ChunkIdle
    /\ EditIdle
    /\ TranslateIdle

NextFetch ==
    FetchStart \/ FetchPrimary \/ FetchFallback \/ FetchCheck \/ FetchMergeCall
        \/ MergeBegin \/ MergeStep \/ MergeEnd \/ FetchSave

\* one run of fetch-transcript.py
SpecFetch == InitFetch /\ [][NextFetch]_vars

(***************************************************************************)
(* Specifications                                                          *)
(***************************************************************************)
InitMerge ==
    /\ m_pc = "start"
    /\ \E n \in 0..MaxRaw :
         \E s0 \in FirstStarts, d \in [1..n -> Durs], g \in [1..(n - 1) -> Gaps],
            t \in [1..n -> Texts] :
              m_segments = BuildSegments(n, s0, d, g, t)
    /\ merged = <<>>
    /\ current = NoSegment
    /\ m_k = 0
    /\ m_groups = <<>>
    /\ m_alias = 0
    /\ m_call = 1
    /\ m_first = <<>>
    /\ ChunkIdle
    /\ EditIdle
    /\ TranslateIdle
    /\ FetchIdle

NextMerge == MergeBegin \/ MergeStep \/ MergeEnd \/ MergeAgain

\* merge_into_paragraphs on every bounded raw transcript
SpecMerge == InitMerge /\ [][NextMerge]_vars

InitChunk ==
    /\ c_pc = "start"
    /\ \E n \in 0..MaxChunkLen : c_segments \in [1..n -> ChunkItems]
    /\ c_max \in 1..MaxWindow
    /\ c_fn \in {"edit", "translate"}
    /\ c_chunks = <<>>
    /\ MergeIdle
    /\ EditIdle
    /\ TranslateIdle
    /\ FetchIdle

NextChunk == ChunkCall

\* chunk_segments on every bounded list and window size
SpecChunk == InitChunk /\ [][NextChunk]_vars

Init ==
    /\ \/ InitEdit /\ TranslateIdle
       \/ EditIdle /\ InitTranslate
    /\ MergeIdle
    /\ ChunkIdle
    /\ FetchIdle

Next == NextEdit \/ NextTranslate

\* one run of edit-transcript.py or of translate.py
Spec == Init /\ [][Next]_vars

\* the same run when the interpreter keeps executing edit-transcript.py and
\* every call of client.messages.create comes back, by returning or raising
SpecLive == Spec /\ WF_vars(NextEdit)

(***************************************************************************)
(* Properties of merge_into_paragraphs                                     *)
(***************************************************************************)
RECURSIVE Compositions(_)
\* the ways of cutting n items, in order, into consecutive non-empty groups
Compositions(n) ==
    IF n = 0 THEN {<<>>}
    ELSE UNION {{<<k>> \o c : c \in Compositions(n - k)} : k \in 1..n}

RECURSIVE SumTo(_, _)
SumTo(sizes, k) == IF k = 0 THEN 0 ELSE sizes[k] + SumTo(sizes, k - 1)

\* the input segments of group k of a cutting
GroupSegs(sizes, k) ==
    [j \in 1..sizes[k] |-> m_segments[SumTo(sizes, k - 1) + j]]

EndOf(seg) == seg.start + seg.duration

\* C4: merge text coverage.  The input segments are cut, in order, into
\* consecutive groups, one per merged segment, every input segment in exactly
\* one group, and each merged segment's text is the texts of its group joined
\* by single spaces in input order: no input text is dropped.
C4_MergeTextCoverage ==
    m_pc = "done" =>
        \E sizes \in Compositions(Len(m_segments)) :
            /\ Len(sizes) = Len(merged)
            /\ \A k \in 1..Len(merged) :
                 merged[k].text =
                     JoinWith(<<SP>>, [j \in 1..sizes[k] |-> GroupSegs(sizes, k)[j].text])

\* a finished merge of three raw segments into a two-segment paragraph and
\* a one-segment paragraph
C4_Witness ==
    /\ m_pc = "done"
    /\ Len(m_segments) = 3
    /\ Len(merged) = 2
    /\ merged[1].text = m_segments[1].text \o <<SP>> \o m_segments[2].text
    /\ merged[2].text = m_segments[3].text

\* C5: merge boundary rule.  Folding the next segment closes the accumulator
\* (appends it to merged and restarts it from the segment) if and only if
\* (gap > 1.5 s and accumulated >= 10.0 s) or accumulated >= 30.0 s.
C5_MergeBoundaryRule ==
    [][(m_pc = "loop" /\ m_k <= Len(m_segments)) =>
         LET seg == m_segments[m_k]
             gap == seg.start - (current.start + current.duration)
             closes == merged' = Append(merged, current) /\ current' = seg
             folds == merged' = merged /\ current'.start = current.start
         IN  /\ closes <=> ((gap > 150 /\ current.duration >= 1000)
                              \/ current.duration >= 3000)
             /\ closes \/ folds]_vars

\* the accumulator was closed at a 2.0 s gap after 12.0 s had accumulated
C5_Witness ==
    /\ m_pc = "loop"
    /\ Len(merged) >= 1
    /\ Len(m_groups[Len(merged)]) = 2
    /\ merged[Len(merged)].duration = 1200
    /\ current.start - EndOf(merged[Len(merged)]) = 200
    /\ Len(m_groups[Len(m_groups)]) = 1

\* C6 as stated: every merged segment has duration <= 30 s or ends at a pause
\* of >= 1.5 s that follows >= 10 s of accumulated duration.
C6_Original ==
    m_pc = "done" =>
        \A k \in 1..Len(merged) :
            \/ merged[k].duration <= 3000
            \/ /\ k < Len(merged)
               /\ merged[k + 1].start - EndOf(merged[k]) >= 150
               /\ merged[k].duration >= 1000

\* what accumulator k spanned before its last consumed segment was folded in
SpanBeforeLast(g) ==
    IF Len(g) = 2 THEN m_segments[g[1]].duration
    ELSE EndOf(m_segments[g[Len(g) - 1]]) - m_segments[g[1]].start

\* C6 amended: a merged segment built from several raw segments had
\* accumulated less than 30 s before its last raw segment was folded in, so
\* only its last consumed segment can carry it past 30 s; and every merged
\* segment but the final one has duration >= 30 s or ends at a pause of more
\* than 1.5 s that follows >= 10 s of accumulated duration.
C6_MergedDurationBound ==
    m_pc = "done" =>
        /\ Len(m_groups) = Len(merged)
        /\ \A k \in 1..Len(merged) :
             /\ merged[k].start = m_segments[m_groups[k][1]].start
             /\ Len(m_groups[k]) >= 2 => SpanBeforeLast(m_groups[k]) < 3000
             /\ k < Len(merged) =>
                  \/ merged[k].duration >= 3000
                  \/ /\ merged[k + 1].start - EndOf(merged[k]) > 150
                     /\ merged[k].duration >= 1000

\* a finished merge holding a paragraph longer than 30 s that is followed by
\* no pause
C6_Witness ==
    /\ m_pc = "done"
    /\ \E k \in 1..Len(merged) :
         /\ merged[k].duration > 3000
         /\ Len(m_groups[k]) >= 2
         /\ k < Len(merged)
         /\ merged[k + 1].start - EndOf(merged[k]) <= 0

C8_WindowingExact ==
    c_pc = "done" =>
        LET M == Len(c_segments)
            W == Len(c_chunks)
        IN  /\ Flatten(c_chunks) = c_segments
            /\ W = (M + c_max - 1) \div c_max
            /\ \A k \in 1..W :
                 /\ Len(c_chunks[k]) >= 1
                 /\ Len(c_chunks[k]) <= c_max
                 /\ k < W => Len(c_chunks[k]) = c_max
                 /\ \A j \in 1..Len(c_chunks[k]) :
                      c_chunks[k][j] = c_segments[(k - 1) * c_max + j]

\* five items cut by two: two full windows and a shorter last one
C8_Witness ==
    /\ c_pc = "done"
    /\ Len(c_segments) = 5
    /\ c_max = 2
    /\ Len(c_chunks) = 3
    /\ Len(c_chunks[3]) = 1

(***************************************************************************)
(* Properties of the editing and translation drivers                       *)
(***************************************************************************)
\* C1 as stated: in a run with exactly one window the structural instruction
\* asks for a complete document and does not tell the service to leave the
\* document unclosed.
C1_SingleWindowClosed ==
    \A k \in 1..Len(e_requests) :
        e_requests[k].total_chunks = 1 =>
            /\ e_requests[k].structure.opening = "include"
            /\ e_requests[k].structure.closing # "do not close"

\* C2: role assignment in a run of two or more windows.  Window 0 is told to
\* open the document and not close it, window totalWindows-1 to emit sections
\* and the closing elements with no opening, every other window sections
\* only; once every window has been requested exactly one request carries
\* the opening role and exactly one the closing role.
C2_RoleAssignment ==
    LET total == Len(e_chunks)
        opens(r) == r.structure.opening = "include"
        closes(r) == r.structure.closing = "add"
    IN  total >= 2 =>
          /\ \A k \in 1..Len(e_requests) :
               LET r == e_requests[k]
               IN  /\ r.chunk_index = k - 1
                   /\ r.total_chunks = total
                   /\ k = 1 => (opens(r) /\ r.structure.closing = "do not close")
                   /\ k = total => (closes(r) /\ r.structure.opening = "exclude")
                   /\ (k # 1 /\ k # total) =>
                        /\ r.structure.opening = "exclude"
                        /\ r.structure.closing = "none"
                        /\ r.structure.scope = "sections only"
          /\ Len(e_requests) = total =>
               /\ Cardinality({k \in 1..total : opens(e_requests[k])}) = 1
               /\ Cardinality({k \in 1..total : closes(e_requests[k])}) = 1

\* a finished run of three windows: first, interior, last
C2_Witness ==
    /\ e_pc = "done"
    /\ Len(e_requests) = 3
    /\ e_requests[2].structure.closing = "none"

\* the titles listed, one per line, in a request's context instruction
ListedTitles(s) == SelectSeq(SplitOn(s, NL), LAMBDA l : l # <<>>)

\* the titles extracted from one returned fragment
FragmentTitles(html) == TitlesOf(SplitOn(html, NL))

\* C3: causal context.  In a run of two or more windows the title list in
\* window i's request is exactly the titles extracted from the fragments
\* returned for windows 0..i-1, in window order; it stays so whatever later
\* windows return, so it holds no title taken from window i or later.
C3_CausalContext ==
    Len(e_chunks) >= 2 =>
        \A k \in 1..Len(e_requests) :
            ListedTitles(e_requests[k].context.titles) =
                Flatten([j \in 1..(k - 1) |-> FragmentTitles(e_replies[j].text)])

\* the third window's request lists the titles of windows 0 and 1, and the
\* third window has returned titles of its own
C3_Witness ==
    /\ Len(e_requests) = 3
    /\ Len(e_replies) = 3
    /\ FragmentTitles(e_replies[1].text) = << <<"- ", "A">> >>
    /\ FragmentTitles(e_replies[2].text) = << <<"- ", "B">>, <<"- ", "C">> >>
    /\ FragmentTitles(e_replies[3].text) = << <<"- ">> >>
    /\ ListedTitles(e_requests[3].context.titles) =
           << <<"- ", "A">>, <<"- ", "B">>, <<"- ", "C">> >>

\* C9: strict sequencing.  At most one call is outstanding; calls are issued
\* in increasing window order; a request for window i+1 exists only when
\* window i's fragment has been returned and appended to the fragment list,
\* and the carried title state holds the titles of every appended fragment.
C9_StrictSequencing ==
    /\ Len(e_requests) - Len(e_replies) \in {0, 1}
    /\ (e_pc = "call") = (Len(e_requests) = Len(e_replies) + 1)
    /\ \A k \in 1..Len(e_requests) :
         /\ e_requests[k].chunk_index = k - 1
         /\ k >= 2 =>
              /\ Len(e_replies) >= k - 1
              /\ e_replies[k - 1].ok
              /\ Len(all_html_parts) >= k - 1
              /\ all_html_parts[k - 1] = e_replies[k - 1].text
    /\ previous_sections =
           Flatten([j \in 1..Len(all_html_parts) |->
                       extract_section_titles(all_html_parts[j]) \o <<NL>>])

\* the second window's call is outstanding after the first has been folded in
C9_Witness ==
    /\ e_pc = "call"
    /\ Len(e_requests) = 2
    /\ Len(all_html_parts) = 1
    /\ previous_sections = <<"- ", "A", NL>>

\* C10: a failed transform call is fatal.  If the call for window i raised,
\* it is the last call of the run, no fragment stands in for it, and the
\* output files are not written, in the editing and the translation driver.
C10_FailureIsFatal ==
    /\ \A k \in 1..Len(e_replies) :
         ~e_replies[k].ok =>
            /\ Len(e_replies) = k
            /\ Len(e_requests) = k
            /\ Len(all_html_parts) = k - 1
            /\ e_i = k - 1
            /\ e_output = NoFile
            /\ e_writes = 0
    /\ \A k \in 1..Len(t_replies) :
         ~t_replies[k].ok =>
            /\ Len(t_replies) = k
            /\ Len(t_requests) = k
            /\ t_i = k - 1
            /\ Len(all_translated) <= (k - 1) * TranslateMaxSegments
            /\ t_json = NoFile
            /\ t_md = NoFile

\* an editing run whose second call raised after the first had returned
C10_Witness ==
    /\ e_pc = "crashed"
    /\ Len(e_replies) = 2
    /\ e_replies[1].ok
    /\ ~e_replies[2].ok

\* C11: style-reference injection.  With a (non-empty) reference document
\* loaded, window 0's request carries its full content and every later
\* window's request carries only the short "continue the same structure"
\* instruction; with none, no request carries any reference instruction.
C11_ReferenceInjection ==
    \A k \in 1..Len(e_requests) :
        LET r == e_requests[k].reference
        IN  IF e_reffile.exists /\ e_reffile.content # <<>>
            THEN /\ k = 1 => (r.kind = "full" /\ r.html = e_reffile.content)
                 /\ k > 1 => (r.kind = "continue" /\ r.html = <<>>)
            ELSE r.kind = "none" /\ r.html = <<>>

\* a run with a reference document whose second window has been requested
C11_Witness ==
    /\ Len(e_requests) >= 2
    /\ e_requests[1].reference.kind = "full"
    /\ e_requests[1].reference.html = <<"<html>", "ref", "</html>">>
    /\ e_requests[2].reference.kind = "continue"

IsPrefix(a, b) == Len(a) <= Len(b) /\ SubSeq(b, 1, Len(a)) = a

\* C12: carrier state.  Every step leaves the carried titles a prefix of
\* their new value; the window index starts at 0, moves only by +1 and only
\* together with one returned and appended fragment, and never exceeds the
\* number of windows.
C12_CarrierMonotone ==
    [][/\ IsPrefix(previous_sections, previous_sections')
       /\ e_pc = "start" => (e_i = 0 /\ previous_sections = <<>>)
       /\ e_i' = e_i \/ e_i' = e_i + 1
       /\ (e_i' = e_i + 1) = (Len(all_html_parts') = Len(all_html_parts) + 1)
       /\ Len(all_html_parts') # Len(all_html_parts) =>
             Len(e_replies') = Len(e_replies) + 1
       /\ e_i' = Len(all_html_parts')
       /\ e_i' <= Len(e_chunks')]_vars

\* all three windows processed and titles carried from more than one window
C12_Witness ==
    /\ Len(e_chunks) = 3
    /\ e_i = 3
    /\ previous_sections = <<"- ", "A", NL, NL, "- ", "B", NL, "- ", "C", NL>>

RECURSIVE BlankLineJoined(_)
\* the parts in order, a blank line between neighbours
BlankLineJoined(parts) ==
    IF parts = <<>> THEN <<>>
    ELSE IF Len(parts) = 1 THEN parts[1]
    ELSE BlankLineJoined(SubSeq(parts, 1, Len(parts) - 1))
             \o <<NL, NL>> \o parts[Len(parts)]

\* C13: assembly.  After a run in which every call returned, the file
\* written is the returned fragments' text, unmodified, one per window, in
\* window order, joined by "\n\n".
C13_Assembly ==
    e_pc = "done" =>
        /\ Len(e_replies) = Len(e_chunks)
        /\ \A k \in 1..Len(e_replies) : e_replies[k].ok
        /\ e_output.exists
        /\ e_output.content =
               BlankLineJoined([k \in 1..Len(e_replies) |-> e_replies[k].text])

\* a finished two-window run whose artifact is the two fragments around a
\* blank line
C13_Witness ==
    /\ e_pc = "done"
    /\ Len(e_replies) = 2
    /\ e_replies[1].text = <<"<h2>", "A", "</h2>", NL, "<p>">>
    /\ e_replies[2].text = <<"<p>">>
    /\ e_output.content = <<"<h2>", "A", "</h2>", NL, "<p>", NL, NL, "<p>">>

\* C16: missing input or credentials.  If the source transcript is absent,
\* or the API key is neither in the environment nor set by .env.local, the
\* editing and the translation run get no further than exit status 1: no
\* call is made and no output file is written.
C16_MissingInputFatal ==
    /\ (e_pc # "idle" /\ (~e_source.exists \/ ~(e_environ \/ e_envlocal))) =>
          /\ e_pc \in {"start", "exit1"}
          /\ e_requests = <<>>
          /\ e_replies = <<>>
          /\ e_output = NoFile
          /\ e_writes = 0
    /\ (t_pc # "idle" /\ (~t_source.exists \/ ~(t_environ \/ t_envlocal))) =>
          /\ t_pc \in {"start", "exit1"}
          /\ t_requests = <<>>
          /\ t_replies = <<>>
          /\ t_json = NoFile
          /\ t_md = NoFile

\* an editing run that found its transcript (two windows' worth) but no key
C16_Witness ==
    /\ e_pc = "exit1"
    /\ e_source.exists
    /\ Len(e_segments) = 41
    /\ ~e_environ
    /\ ~e_envlocal

\* C18 as stated: when the fragment returned for window i has no line with
\* both <h2> and </h2>, what is carried to window i+1's request is what was
\* carried to window i's.
C18_NoTitlesNoChange ==
    \A k \in 1..(Len(e_requests) - 1) :
        FragmentTitles(e_replies[k].text) = <<>> =>
            e_requests[k + 1].context = e_requests[k].context

\* the number of lines translate_chunk sees in a reply: those of the
\* stripped text, an empty text counting as one empty line
LineCount(text) ==
    1 + Cardinality({p \in 1..Len(Strip(text)) : Strip(text)[p] = NL})

\* the source segments window j's reply yields a translation for
Kept(j) ==
    SubSeq(t_chunks[j], 1,
           IF Len(t_chunks[j]) <= LineCount(t_replies[j].text)
           THEN Len(t_chunks[j]) ELSE LineCount(t_replies[j].text))

\* C20: translation alignment.  Each processed window contributes
\* min(window size, lines of its reply) segments, the k-th with the start and
\* duration of the window's k-th source segment; so the translation is never
\* longer than the source, its timings are source timings in source order,
\* and a short reply drops the window's trailing segments without moving the
\* timings of later windows.
C20_TranslationAlignment ==
    LET expected == Flatten([j \in 1..t_i |-> Kept(j)])
    IN  /\ Len(all_translated) = Len(expected)
        /\ \A k \in 1..Len(all_translated) :
             /\ all_translated[k].start = expected[k].start
             /\ all_translated[k].duration = expected[k].duration
        /\ Len(all_translated) <= Len(t_segments)
        /\ \A k \in 1..(Len(all_translated) - 1) :
             all_translated[k].start < all_translated[k + 1].start

\* the first window's reply was one line short: its 50th segment is gone and
\* the second window's first segment follows with its own timing
C20_Witness ==
    /\ t_i = 2
    /\ Len(t_chunks) = 2
    /\ Len(all_translated) = 49 + Len(t_chunks[2])
    /\ all_translated[49].start = t_segments[49].start
    /\ all_translated[50].start = t_segments[51].start
    /\ all_translated[50].duration = t_segments[51].duration

\* C15: merge edge cases.  An empty input returns an empty output; a
\* one-segment input returns exactly that segment.
C15_MergeEdgeCases ==
    m_pc = "done" =>
        /\ Len(m_segments) = 0 => merged = <<>>
        /\ Len(m_segments) = 1 => merged = <<m_segments[1]>>

\* a finished merge of a single 30 s segment that starts after 0
C15_Witness ==
    /\ m_pc = "done"
    /\ Len(m_segments) = 1
    /\ m_segments[1].start = 250
    /\ m_segments[1].duration = 3000
    /\ Len(merged) = 1

\* C17: merged-segment span.  Every closed merged segment starts where the
\* first raw segment it consumed starts; built from several raw segments its
\* duration is (end of the last consumed segment) - (its start), inner gaps
\* included; built from one it keeps that segment's duration.
C17_MergedSpan ==
    \A k \in 1..Len(merged) :
        k <= Len(m_groups) =>
            LET g == m_groups[k]
                first == m_segments[g[1]]
                last == m_segments[g[Len(g)]]
            IN  /\ \A j \in 1..Len(g) : g[j] = g[1] + j - 1
                /\ merged[k].start = first.start
                /\ merged[k].duration =
                       IF Len(g) = 1 THEN first.duration
                       ELSE (last.start + last.duration) - first.start

\* a merged segment of a 10 s and a 2 s raw segment 1.5 s apart: 13.5 s
C17_Witness ==
    /\ Len(merged) >= 1
    /\ Len(m_groups[1]) = 2
    /\ m_segments[1].duration = 1000
    /\ m_segments[2].duration = 200
    /\ m_segments[2].start - EndOf(m_segments[1]) = 150
    /\ merged[1].duration = 1350

\* C19: merge purity.  No step of merge_into_paragraphs changes its input
\* list or any segment in it, and a second call on the same list returns
\* what the first returned.
C19_MergePurity ==
    /\ [][(m_pc \in {"start", "loop", "done"}) => (m_segments' = m_segments)]_vars
    /\ [](m_pc = "done" /\ m_call = 2 => merged = m_first)

\* the second call on a three-segment input, whose first accumulator folded
\* a segment in, has returned
C19_Witness ==
    /\ m_pc = "done"
    /\ m_call = 2
    /\ Len(m_segments) = 3
    /\ Len(m_groups[1]) = 2
    /\ Len(m_first) = 2

\* C14: acquisition fallback.  fetch_with_ytdlp is invoked if and only if
\* fetch_with_api fails or returns no segments, and only after it; if both
\* deliver nothing the run exits non-zero, merge_into_paragraphs is never
\* called and neither transcript file is written.
C14_AcquisitionFallback ==
    /\ \A k \in 1..Len(f_calls) :
         /\ k = 1 <=> f_calls[k] = "api"
         /\ k = 2 <=> f_calls[k] = "ytdlp"
    /\ Len(f_returns) = Len(f_calls)
    /\ f_pc \in {"check", "merge", "merging", "done"} \/ Len(f_calls) = 2 =>
         (Len(f_calls) = 2 <=> NotSegments(f_returns[1]))
    /\ f_pc = "exit1" /\ f_calls # <<>> => Len(f_calls) = 2
    /\ (/\ Len(f_returns) = 2
        /\ NotSegments(f_returns[2])
        /\ f_pc # "check") =>
         /\ f_pc = "exit1"
         /\ m_pc = "idle"
         /\ merged = <<>>
    /\ f_pc = "exit1" => f_json = NoFile /\ f_md = NoFile

\* the primary returned an empty list, the secondary failed, the run exited
C14_Witness ==
    /\ f_pc = "exit1"
    /\ f_calls = <<"api", "ytdlp">>
    /\ f_returns = <<ListOf(<<>>), None>>
    /\ f_json = NoFile

\* ceil(M / maxWindowSize) for the editing driver
TotalWindows(M) == (M + EditMaxSegments - 1) \div EditMaxSegments

\* the segments of window k (1-based), straight from the loaded transcript
WindowOf(k) ==
    SubSeq(e_segments, (k - 1) * EditMaxSegments + 1,
           IF k * EditMaxSegments < Len(e_segments) THEN k * EditMaxSegments
           ELSE Len(e_segments))

\* C21: run completion.  An editing run that got past its start-up checks and
\* whose transform calls all return issues one call per window, window k's
\* call carrying window k's segments, ceil(M / 40) calls in all; it writes
\* the artifact once, only after the last window's fragment has come back;
\* and it terminates: it reaches "done" unless a call raised.
C21_RunCompletion ==
    /\ [](/\ e_writes <= 1
          /\ Len(e_requests) <= TotalWindows(Len(e_segments))
          /\ \A k \in 1..Len(e_requests) :
               /\ e_requests[k].chunk_index = k - 1
               /\ e_requests[k].text_block = text_block(WindowOf(k))
          /\ (e_writes = 1 \/ e_pc = "done") =>
               /\ e_pc = "done"
               /\ e_writes = 1
               /\ e_output.exists
               /\ Len(e_requests) = TotalWindows(Len(e_segments))
               /\ Len(e_replies) = Len(e_requests)
               /\ \A k \in 1..Len(e_replies) : e_replies[k].ok)
    /\ [][e_pc = "done" => e_pc' = "done" /\ e_output' = e_output]_vars
    /\ (e_pc = "loop") ~>
           (e_pc = "done" \/ \E k \in 1..Len(e_replies) : ~e_replies[k].ok)

\* a finished run over 81 segments: three calls, three fragments, one write
C21_Witness ==
    /\ e_pc = "done"
    /\ Len(e_segments) = 81
    /\ Len(e_requests) = 3
    /\ Len(e_replies) = 3
    /\ e_writes = 1

\* C22: empty transcript.  When the loaded transcript has no segments the
\* editing run plans no window, makes no transform call (so no request ever
\* carries the opening or the closing role), and, once past the start-up
\* checks, completes by writing an empty artifact.
C22_EmptyTranscript ==
    /\ [](e_source.exists /\ e_source.content = <<>> =>
            /\ e_chunks = <<>>
            /\ e_requests = <<>>
            /\ e_replies = <<>>
            /\ e_pc \in {"start", "loop", "done", "exit1"}
            /\ e_pc = "exit1" => ~e_environ
            /\ e_pc = "done" => e_output = FileOf(<<>>) /\ e_writes = 1
            /\ e_pc # "done" => e_output = NoFile /\ e_writes = 0)
    /\ (e_pc = "loop" /\ e_segments = <<>>) ~> (e_pc = "done")

\* the run on an empty transcript has finished with an empty artifact
C22_Witness ==
    /\ e_pc = "done"
    /\ e_source = FileOf(<<>>)
    /\ e_requests = <<>>
    /\ e_output = FileOf(<<>>)

====
